---- MODULE Spec2Model ----
(***************************************************************************)
(* Model of src/app.py: the OCR text extraction pipeline (process_image)   *)
(* and the "Save Data to Sheet" handler.                                   *)
(*                                                                         *)
(* A text is a sequence of one-character strings.  The three regular       *)
(* expressions of process_image are modelled as matchers over such         *)
(* sequences, re.findall as a left-to-right non-overlapping scan.  The     *)
(* alphabet is ASCII: letters, digits, '_', '.', '-', '/', ':' and the     *)
(* whitespace characters space, tab, newline, carriage return, form feed.  *)
(***************************************************************************)
EXTENDS Integers, Sequences, FiniteSets, TLC

VARIABLES
    pc,               \* position of the script: start, loop, finalize, done, shown, raised
    i,                \* index of the pass the loop of process_image is at (1..NumPasses+1)
    texts,            \* texts returned by the recognizer so far, in pass order
    calls,            \* number of recognizer calls made
    error,            \* which call raised: "none", "decode", "recognizer"
    all_found_codes,  \* set of code strings
    all_found_dates,  \* list of raw date strings
    final_codes,      \* returned code list
    detected_date,    \* returned date
    final_date,       \* content of the date field when Save was pressed
    edited_codes,     \* content of the code text area when Save was pressed
    timestamp,        \* timestamp computed by the save handler
    appended,         \* rows appended to the sheet by the last press of Save
    save_status,      \* "none", "date_error", "saved", "sheet_error"
    blob,             \* (extractor specification) the text under extraction
    phase,            \* (extractor specification) input, extracted, normalized
    blob_codes,       \* code_pattern.findall(blob)
    blob_dates,       \* the matches the blob contributes to all_found_dates
    blob_clean        \* the normalized blob_dates

vars == <<pc, i, texts, calls, error, all_found_codes, all_found_dates,
          final_codes, detected_date, final_date, edited_codes, timestamp,
          appended, save_status, blob, phase, blob_codes, blob_dates, blob_clean>>

pipeVars == <<pc, i, texts, calls, error, all_found_codes, all_found_dates,
              final_codes, detected_date>>
saveVars == <<final_date, edited_codes, timestamp, appended, save_status>>
blobVars == <<blob, phase, blob_codes, blob_dates, blob_clean>>

-----------------------------------------------------------------------------
(* Characters *)

UpperSeq == <<"A","B","C","D","E","F","G","H","I","J","K","L","M",
              "N","O","P","Q","R","S","T","U","V","W","X","Y","Z">>
LowerSeq == <<"a","b","c","d","e","f","g","h","i","j","k","l","m",
              "n","o","p","q","r","s","t","u","v","w","x","y","z">>
DigitSeq == <<"0","1","2","3","4","5","6","7","8","9">>

Range(s) == {s[k] : k \in DOMAIN s}

UpperSet == Range(UpperSeq)
LowerSet == Range(LowerSeq)
DigitSet == Range(DigitSeq)

\* [A-Z0-9]
CodeCharSet == UpperSet \cup DigitSet
\* \s
SpaceSet == {" ", "\t", "\n", "\r", "\f"}
\* \w
WordSet == UpperSet \cup LowerSet \cup DigitSet \cup {"_"}
\* [./\-\s]
DateSepSet == {".", "/", "-"} \cup SpaceSet
\* [:\s]
ColonSpaceSet == {":"} \cup SpaceSet
\* [/]
SlashSet == {"/"}

IndexOf(s, c) == CHOOSE k \in DOMAIN s : s[k] = c

\* re.IGNORECASE: letters compare by their upper-case form
ToUpper(c) == IF c \in LowerSet THEN UpperSeq[IndexOf(LowerSeq, c)] ELSE c

\* code point of a character (Python compares strings by code point)
Ord(c) ==
    CASE c = "\t" -> 9
      [] c = "\n" -> 10
      [] c = "\f" -> 12
      [] c = "\r" -> 13
      [] c = " "  -> 32
      [] c = "-"  -> 45
      [] c = "."  -> 46
      [] c = "/"  -> 47
      [] c \in DigitSet -> 47 + IndexOf(DigitSeq, c)
      [] c = ":"  -> 58
      [] c \in UpperSet -> 64 + IndexOf(UpperSeq, c)
      [] c = "_"  -> 95
      [] c \in LowerSet -> 96 + IndexOf(LowerSeq, c)

-----------------------------------------------------------------------------
(* Regular expression primitives; positions are 1-based, p in 1..Len+1 *)

\* \b at position p: exactly one side of p is a word character
AtBoundary(text, p) ==
    LET before == p > 1 /\ text[p - 1] \in WordSet
        after  == p <= Len(text) /\ text[p] \in WordSet
    IN  before # after

\* n characters of class S starting at p
ClassAt(text, p, n, S) ==
    /\ p + n - 1 <= Len(text)
    /\ \A k \in 0 .. (n - 1) : text[p + k] \in S

\* the literal lit at p, ignoring case
LitAt(text, p, lit) ==
    /\ p + Len(lit) - 1 <= Len(text)
    /\ \A k \in 1 .. Len(lit) : ToUpper(text[p + k - 1]) = lit[k]

\* greedy S* from p: the first position at or after p whose character is not in S
RECURSIVE Skip(_, _, _)
Skip(text, p, S) ==
    IF p <= Len(text) /\ text[p] \in S THEN Skip(text, p + 1, S) ELSE p

\* greedy \d{2,4} from p: number of digits taken (0 when fewer than two)
YearLen(text, p) ==
    IF ClassAt(text, p, 4, DigitSet) THEN 4
    ELSE IF ClassAt(text, p, 3, DigitSet) THEN 3
    ELSE IF ClassAt(text, p, 2, DigitSet) THEN 2
    ELSE 0

-----------------------------------------------------------------------------
(* code_pattern, line 58 *)

CodeLen == 15

\* \b[A-Z0-9]{3}\s[A-Z0-9]{3}\s[A-Z0-9]{3}\s[A-Z0-9]{3}\b matches at p
CodeMatchAt(text, p) ==
    /\ AtBoundary(text, p)
    /\ ClassAt(text, p, 3, CodeCharSet)
    /\ ClassAt(text, p + 3, 1, SpaceSet)
    /\ ClassAt(text, p + 4, 3, CodeCharSet)
    /\ ClassAt(text, p + 7, 1, SpaceSet)
    /\ ClassAt(text, p + 8, 3, CodeCharSet)
    /\ ClassAt(text, p + 11, 1, SpaceSet)
    /\ ClassAt(text, p + 12, 3, CodeCharSet)
    /\ AtBoundary(text, p + CodeLen)

RECURSIVE CodeScan(_, _)
CodeScan(text, p) ==
    IF p > Len(text) THEN <<>>
    ELSE IF CodeMatchAt(text, p)
         THEN <<SubSeq(text, p, p + CodeLen - 1)>> \o CodeScan(text, p + CodeLen)
         ELSE CodeScan(text, p + 1)

\* code_pattern.findall(text)
FindCodes(text) == CodeScan(text, 1)

-----------------------------------------------------------------------------
(* mfd_pattern, line 63 *)

\* \d{2}[S]\d{2}[S]\d{2,4} at p with separator class S: the position after
\* the match, 0 when there is none
DateEndAt(text, p, S) ==
    IF /\ ClassAt(text, p, 2, DigitSet)
       /\ ClassAt(text, p + 2, 1, S)
       /\ ClassAt(text, p + 3, 2, DigitSet)
       /\ ClassAt(text, p + 5, 1, S)
       /\ YearLen(text, p + 6) > 0
    THEN p + 6 + YearLen(text, p + 6)
    ELSE 0

\* MFD\.?\s*ON[:\s]*( at p: the position where the group starts, 0 when the
\* anchor does not match
AnchorEndAt(text, p) ==
    IF ~LitAt(text, p, <<"M", "F", "D">>) THEN 0
    ELSE LET q1 == IF ClassAt(text, p + 3, 1, {"."}) THEN p + 4 ELSE p + 3
             q2 == Skip(text, q1, SpaceSet)
         IN  IF ~LitAt(text, q2, <<"O", "N">>) THEN 0
             ELSE Skip(text, q2 + 2, ColonSpaceSet)

\* mfd_pattern matches at p: <<start of the group, position after the match>>,
\* <<0, 0>> when there is no match
MfdMatchAt(text, p) ==
    LET g == AnchorEndAt(text, p)
        e == IF g = 0 THEN 0 ELSE DateEndAt(text, g, DateSepSet)
    IN  IF e = 0 THEN <<0, 0>> ELSE <<g, e>>

RECURSIVE MfdScan(_, _)
MfdScan(text, p) ==
    IF p > Len(text) THEN <<>>
    ELSE LET m == MfdMatchAt(text, p)
         IN  IF m[2] > 0
             THEN <<SubSeq(text, m[1], m[2] - 1)>> \o MfdScan(text, m[2])
             ELSE MfdScan(text, p + 1)

\* mfd_pattern.findall(text): the captured groups
FindMfd(text) == MfdScan(text, 1)

-----------------------------------------------------------------------------
(* loose_date_pattern, line 68 *)

\* \b\d{2}[S]\d{2}[S]\d{2,4}\b at p: the year backtracks from four digits to
\* two until \b holds after it
BoundedDateEndAt(text, p, S) ==
    IF /\ AtBoundary(text, p)
       /\ ClassAt(text, p, 2, DigitSet)
       /\ ClassAt(text, p + 2, 1, S)
       /\ ClassAt(text, p + 3, 2, DigitSet)
       /\ ClassAt(text, p + 5, 1, S)
    THEN LET ok(n) == ClassAt(text, p + 6, n, DigitSet) /\ AtBoundary(text, p + 6 + n)
         IN  IF ok(4) THEN p + 10
             ELSE IF ok(3) THEN p + 9
             ELSE IF ok(2) THEN p + 8
             ELSE 0
    ELSE 0

\* variant: the loose pattern written with the separator class of mfd_pattern
LooseEndAtAnySep(text, p) == BoundedDateEndAt(text, p, DateSepSet)

LooseEndAt(text, p) == BoundedDateEndAt(text, p, SlashSet)

RECURSIVE LooseScan(_, _)
LooseScan(text, p) ==
    IF p > Len(text) THEN <<>>
    ELSE LET e == LooseEndAt(text, p)
         IN  IF e > 0
             THEN <<SubSeq(text, p, e - 1)>> \o LooseScan(text, e)
             ELSE LooseScan(text, p + 1)

\* loose_date_pattern.findall(text)
FindLoose(text) == LooseScan(text, 1)

\* variant: the loose search runs whether or not an anchor matched
DateMatchesBoth(text) == FindMfd(text) \o FindLoose(text)

\* variant: the loose search runs first and the anchored matches follow
DateMatchesLooseFirst(text) == FindLoose(text) \o FindMfd(text)

\* lines 63-69: the anchored matches, the loose ones only when there are none
DateMatches(text) ==
    LET matches == FindMfd(text)
    IN  IF matches = <<>> THEN FindLoose(text) ELSE matches

-----------------------------------------------------------------------------
(* normalization, line 79 *)

\* str.replace(old, new) for one-character old and new
Replace(s, old, new) == [k \in DOMAIN s |-> IF s[k] = old THEN new ELSE s[k]]

\* variant: the replacement of '-' is missing
NormalizeNoDash(d) == Replace(Replace(d, ".", "/"), " ", "/")

Normalize(d) == Replace(Replace(Replace(d, ".", "/"), "-", "/"), " ", "/")

-----------------------------------------------------------------------------
(* Texts the recognizer can return, built from printed fragments *)

RECURSIVE Concat(_)
Concat(ss) == IF ss = <<>> THEN <<>> ELSE Head(ss) \o Concat(Tail(ss))

\* the date 21 08 25 printed with separator s
DateWith(s) == <<"2", "1", s, "0", "8", s, "2", "5">>
\* a dot code g 123 XYZ 789 read with s between the first two groups
CodeOf(g, s) == g \o <<s, "1", "2", "3", " ", "X", "Y", "Z", " ", "7", "8", "9">>
CodeWith(s) == CodeOf(<<"A", "B", "C">>, s)

AnchorPlain == <<"M", "F", "D", " ", "O", "N", " ">>
AnchorDotted == <<"m", "f", "d", ".", "o", "n", ":">>
OtherDate == <<"1", "8", "/", "1", "1", "/", "2", "0", "2", "5">>
OtherDateLine == Append(OtherDate, "\n")

Pieces ==
    {AnchorPlain, AnchorDotted, OtherDateLine, <<" ">>, <<"X">>}
    \cup {DateWith(s) : s \in {".", "-", "/", " ", "\t", "\n"}}
    \cup {CodeWith(s) : s \in {" ", "\n"}}

\* most fragments a blob of the extractor specification is made of
MaxPieces == 3

RECURSIVE SeqsUpTo(_, _)
SeqsUpTo(S, n) ==
    IF n = 0 THEN {<<>>}
    ELSE LET shorter == SeqsUpTo(S, n - 1)
         IN  shorter \cup {Append(s, x) : s \in shorter, x \in S}

Blobs == {Concat(ps) : ps \in SeqsUpTo(Pieces, MaxPieces)}

-----------------------------------------------------------------------------
(* Extractor specification: the loop body and the normalization applied to *)
(* one text                                                                *)

NoText == <<>>

InitPipe ==
    /\ pc = "start"
    /\ i = 1
    /\ texts = <<>>
    /\ calls = 0
    /\ error = "none"
    /\ all_found_codes = {}
    /\ all_found_dates = <<>>
    /\ final_codes = <<>>
    /\ detected_date = <<>>

InitSave ==
    /\ final_date = <<>>
    /\ edited_codes = <<>>
    /\ timestamp = 0
    /\ appended = <<>>
    /\ save_status = "none"

InitBlobIdle ==
    /\ blob = NoText
    /\ phase = "idle"
    /\ blob_codes = <<>>
    /\ blob_dates = <<>>
    /\ blob_clean = <<>>

ExtractInit ==
    /\ InitPipe
    /\ InitSave
    /\ blob \in Blobs
    /\ phase = "input"
    /\ blob_codes = <<>>
    /\ blob_dates = <<>>
    /\ blob_clean = <<>>

\* lines 57-71 on one text
Extract ==
    /\ phase = "input"
    /\ blob_codes' = FindCodes(blob)
    /\ blob_dates' = DateMatches(blob)
    /\ phase' = "extracted"
    /\ UNCHANGED <<blob, blob_clean, pipeVars, saveVars>>

\* line 79 on the matches of one text
NormalizeDates ==
    /\ phase = "extracted"
    /\ blob_clean' = [k \in DOMAIN blob_dates |-> Normalize(blob_dates[k])]
    /\ phase' = "normalized"
    /\ UNCHANGED <<blob, blob_codes, blob_dates, pipeVars, saveVars>>

ExtractNext == Extract \/ NormalizeDates

ExtractSpec == ExtractInit /\ [][ExtractNext]_vars

-----------------------------------------------------------------------------
(* Aggregation, lines 74-81 *)

\* a < b for Python strings: by code point, a proper prefix first
RECURSIVE StrLess(_, _)
StrLess(a, b) ==
    IF b = <<>> THEN FALSE
    ELSE IF a = <<>> THEN TRUE
    ELSE IF Head(a) = Head(b) THEN StrLess(Tail(a), Tail(b))
    ELSE Ord(Head(a)) < Ord(Head(b))

\* variant: sorted in descending order
RECURSIVE SortedDescending(_)
SortedDescending(S) ==
    IF S = {} THEN <<>>
    ELSE LET m == CHOOSE x \in S : \A y \in S \ {x} : StrLess(y, x)
         IN  <<m>> \o SortedDescending(S \ {m})

\* sorted(list(S)) for a set of strings
RECURSIVE Sorted(_)
Sorted(S) ==
    IF S = {} THEN <<>>
    ELSE LET m == CHOOSE x \in S : \A y \in S \ {x} : StrLess(x, y)
         IN  <<m>> \o Sorted(S \ {m})

\* Counter(seq): the distinct elements in order of first insertion, each with
\* its count
RECURSIVE Counter(_)
Counter(seq) ==
    IF seq = <<>> THEN <<>>
    ELSE LET n    == Len(seq)
             c    == Counter(SubSeq(seq, 1, n - 1))
             x    == seq[n]
             hits == {k \in DOMAIN c : c[k].key = x}
         IN  IF hits = {}
             THEN Append(c, [key |-> x, count |-> 1])
             ELSE [k \in DOMAIN c |->
                     IF k \in hits THEN [key |-> x, count |-> c[k].count + 1]
                     ELSE c[k]]

\* variant: a later item also replaces the best one on an equal count
RECURSIVE MaxByCountLast(_, _)
MaxByCountLast(c, n) ==
    IF n = 1 THEN c[1]
    ELSE LET best == MaxByCountLast(c, n - 1)
         IN  IF c[n].count >= best.count THEN c[n] ELSE best

\* the scan of max(items, key=count): a later item replaces the best one only
\* when its count is strictly greater
RECURSIVE MaxByCount(_, _)
MaxByCount(c, n) ==
    IF n = 1 THEN c[1]
    ELSE LET best == MaxByCount(c, n - 1)
         IN  IF c[n].count > best.count THEN c[n] ELSE best

\* Counter.most_common(1)[0][0] of a non-empty counter
MostCommon(c) == MaxByCount(c, Len(c)).key

\* line 79
CleanDates(dates) == [k \in DOMAIN dates |-> Normalize(dates[k])]

\* lines 76-81
DetectedDate(dates) ==
    IF dates = <<>> THEN <<>> ELSE MostCommon(Counter(CleanDates(dates)))

-----------------------------------------------------------------------------
(* process_image, lines 35-83 *)

\* the four entries of passes, lines 47-52
NumPasses == 4

SecondCode == CodeOf(<<"7", "Q", "K">>, " ")
ThirdDate == <<"0", "5", "/", "0", "1", "/", "2", "4">>
NewLine == <<"\n">>
Space == <<" ">>

\* texts the recognizer returns in the pipeline specification
PipelineTexts ==
    { <<"X">>,
      Concat(<<CodeWith(" "), NewLine, AnchorPlain, DateWith(".")>>),
      Concat(<<CodeWith(" "), NewLine, ThirdDate>>),
      Concat(<<SecondCode, Space, AnchorDotted, DateWith("-")>>),
      Concat(<<OtherDate, Space, DateWith("/")>>),
      CodeWith("\n"),
      DateWith("."),
      Concat(<<OtherDate, Space, AnchorPlain, DateWith(".")>>) }

Init == InitPipe /\ InitSave /\ InitBlobIdle

\* lines 37-52: the image decodes and the four bitmaps are derived
DecodeOk ==
    /\ pc = "start"
    /\ pc' = "loop"
    /\ UNCHANGED <<i, texts, calls, error, all_found_codes, all_found_dates,
                   final_codes, detected_date, saveVars, blobVars>>

\* lines 38-39: cv2.imdecode returns None for bytes that are no image and
\* cv2.cvtColor raises on it
DecodeFails ==
    /\ pc = "start"
    /\ pc' = "raised"
    /\ error' = "decode"
    /\ UNCHANGED <<i, texts, calls, all_found_codes, all_found_dates,
                   final_codes, detected_date, saveVars, blobVars>>

\* lines 55-71: one pass whose recognizer call returns t
Pass(t) ==
    /\ pc = "loop"
    /\ i <= NumPasses
    /\ calls' = calls + 1
    /\ texts' = Append(texts, t)
    /\ all_found_codes' = all_found_codes \cup Range(FindCodes(t))
    /\ all_found_dates' = all_found_dates \o DateMatches(t)
    /\ i' = i + 1
    /\ UNCHANGED <<pc, error, final_codes, detected_date, saveVars, blobVars>>

Recognize == \E t \in PipelineTexts : Pass(t)

\* variant: the failing call is caught and the pass contributes nothing
RecognizerRaisesSwallowed ==
    /\ pc = "loop"
    /\ i <= NumPasses
    /\ calls' = calls + 1
    /\ error' = "recognizer"
    /\ texts' = Append(texts, <<>>)
    /\ i' = i + 1
    /\ UNCHANGED <<pc, all_found_codes, all_found_dates,
                   final_codes, detected_date, saveVars, blobVars>>

\* line 55: pytesseract.image_to_string raises; nothing catches it
RecognizerRaises ==
    /\ pc = "loop"
    /\ i <= NumPasses
    /\ calls' = calls + 1
    /\ error' = "recognizer"
    /\ pc' = "raised"
    /\ UNCHANGED <<i, texts, all_found_codes, all_found_dates,
                   final_codes, detected_date, saveVars, blobVars>>

\* lines 74-83
Finalize ==
    /\ pc = "loop"
    /\ i > NumPasses
    /\ final_codes' = Sorted(all_found_codes)
    /\ detected_date' = DetectedDate(all_found_dates)
    /\ pc' = "done"
    /\ UNCHANGED <<i, texts, calls, error, all_found_codes, all_found_dates,
                   saveVars, blobVars>>

-----------------------------------------------------------------------------
(* The page after process_image returned, lines 111-159 *)

\* sep.join(strs)
RECURSIVE Join(_, _)
Join(strs, sep) ==
    IF strs = <<>> THEN <<>>
    ELSE IF Len(strs) = 1 THEN strs[1]
    ELSE strs[1] \o <<sep>> \o Join(Tail(strs), sep)

\* s.find(sep) from position p on, 0 when sep does not occur
RECURSIVE Find(_, _, _)
Find(s, p, sep) ==
    IF p > Len(s) THEN 0
    ELSE IF s[p] = sep THEN p
    ELSE Find(s, p + 1, sep)

\* s.split(sep) for a one-character sep
RECURSIVE Split(_, _)
Split(s, sep) ==
    LET cut == Find(s, 1, sep)
    IN  IF cut = 0 THEN <<s>>
        ELSE <<SubSeq(s, 1, cut - 1)>> \o Split(SubSeq(s, cut + 1, Len(s)), sep)

\* the last position at or before p whose character is not in S
RECURSIVE SkipBack(_, _, _)
SkipBack(s, p, S) ==
    IF p >= 1 /\ s[p] \in S THEN SkipBack(s, p - 1, S) ELSE p

\* s.strip()
Strip(s) == SubSeq(s, Skip(s, 1, SpaceSet), SkipBack(s, Len(s), SpaceSet))

\* line 131
CodesText(codes) == Join(codes, "\n")

\* lines 148-151: the rows of the non-blank lines, in order
RECURSIVE Rows(_, _, _)
Rows(lines, ts, fd) ==
    IF lines = <<>> THEN <<>>
    ELSE LET rest == Rows(Tail(lines), ts, fd)
         IN  IF Strip(Head(lines)) # <<>>
             THEN <<[timestamp |-> ts, date |-> fd, code |-> Strip(Head(lines))]>> \o rest
             ELSE rest

\* lines 145-151
SaveRows(ts, fd, ec) == Rows(Split(ec, "\n"), ts, fd)

\* largest value datetime.now() takes in the model
MaxClock == 2

BlankDate == <<" ">>
TypedDate == <<"0", "1", "/", "0", "1", "/", "2", "5">>
\* what the operator can leave in the date field, line 122
DateInputs == {detected_date, BlankDate, TypedDate}

EditedText == Concat(<<Space, SecondCode, Space, NewLine, NewLine, CodeWith(" ")>>)
\* what the operator can leave in the text area, line 132
CodeInputs == {CodesText(final_codes), EditedText}

\* lines 135-157: Save pressed with fd in the date field and ec in the text
\* area, datetime.now() giving ts; n is the number of rows appended before a
\* sheet call raises, Len(rows) + 1 when none does
SavePressed(fd, ec, ts, n) ==
    /\ pc = "done"
    /\ final_codes # <<>>
    /\ final_date' = fd
    /\ edited_codes' = ec
    /\ pc' = "saved"
    /\ IF Strip(fd) = <<>>
       THEN /\ save_status' = "date_error"
            /\ appended' = <<>>
            /\ timestamp' = 0
       ELSE LET rows == SaveRows(ts, fd, ec)
            IN  /\ timestamp' = ts
                /\ n <= Len(rows) + 1
                /\ IF n = Len(rows) + 1
                   THEN /\ appended' = rows
                        /\ save_status' = "saved"
                   ELSE /\ n < Len(rows) \/ n = 0
                        /\ appended' = SubSeq(rows, 1, n)
                        /\ save_status' = "sheet_error"
    /\ UNCHANGED <<i, texts, calls, error, all_found_codes, all_found_dates,
                   final_codes, detected_date, blobVars>>

\* lines 113, 135: the form is on the page and Save is pressed
Save ==
    /\ pc = "done"
    /\ \E fd \in DateInputs, ec \in CodeInputs, ts \in 1 .. MaxClock :
          \E n \in 0 .. (Len(Split(ec, "\n")) + 1) :
              SavePressed(fd, ec, ts, n)

\* lines 158-159: nothing to save
NoCodes ==
    /\ pc = "done"
    /\ final_codes = <<>>
    /\ pc' = "no_codes"
    /\ UNCHANGED <<i, texts, calls, error, all_found_codes, all_found_dates,
                   final_codes, detected_date, saveVars, blobVars>>

Next ==
    \/ DecodeOk
    \/ DecodeFails
    \/ Recognize
    \/ RecognizerRaises
    \/ Finalize
    \/ Save
    \/ NoCodes

Spec == Init /\ [][Next]_vars

-----------------------------------------------------------------------------
(* Properties of the extractors (checked under ExtractSpec) *)

\* the positions of text where mfd_pattern matches
AnchorStarts(text) == {p \in 1 .. Len(text) : MfdMatchAt(text, p)[2] > 0}

\* the elements of a finite set of numbers in ascending order
RECURSIVE Ascending(_)
Ascending(S) ==
    IF S = {} THEN <<>>
    ELSE LET m == CHOOSE x \in S : \A y \in S : x <= y
         IN  <<m>> \o Ascending(S \ {m})

\* d stands in text right after ON and any run of colons and whitespace
FollowsAnchor(text, d) ==
    \E g \in 3 .. Len(text) :
        /\ g + Len(d) - 1 <= Len(text)
        /\ SubSeq(text, g, g + Len(d) - 1) = d
        /\ \E q \in 1 .. (g - 2) :
              /\ LitAt(text, q, <<"O", "N">>)
              /\ \A k \in (q + 2) .. (g - 1) : text[k] \in ColonSpaceSet

\* the positions of text where a date-shaped token with separators from S
\* stands between word boundaries
TokenStarts(text, S) == {p \in 1 .. Len(text) : BoundedDateEndAt(text, p, S) > 0}

TokenAt(text, p, S) == SubSeq(text, p, BoundedDateEndAt(text, p, S) - 1)

\* C2: a blob that holds at least one anchored date contributes exactly the
\* anchored matches, one per anchor position and in text order, each standing
\* right after the marker; nothing else of the blob is contributed.
C2_AnchoredOnly ==
    (phase # "input" /\ AnchorStarts(blob) # {}) =>
        LET starts == Ascending(AnchorStarts(blob))
        IN  /\ blob_dates =
                 [k \in DOMAIN starts |->
                     SubSeq(blob, MfdMatchAt(blob, starts[k])[1],
                                  MfdMatchAt(blob, starts[k])[2] - 1)]
            /\ \A k \in DOMAIN blob_dates : FollowsAnchor(blob, blob_dates[k])

\* C2 happens: the blob holds an anchored date and a loose date that the loose
\* pattern matches, and the loose one is not contributed
C2_Witness ==
    /\ phase = "extracted"
    /\ AnchorStarts(blob) # {}
    /\ \E k \in DOMAIN FindLoose(blob) : FindLoose(blob)[k] \notin Range(blob_dates)

\* C3 as stated: with no anchored match, every date-shaped token whose
\* separators are '.', '-', '/' or whitespace is contributed.
C3_AnySeparator ==
    (phase # "input" /\ AnchorStarts(blob) = {}) =>
        \A p \in TokenStarts(blob, DateSepSet) :
            TokenAt(blob, p, DateSepSet) \in Range(blob_dates)

\* C3 amended: with no anchored match, the blob contributes only tokens whose
\* two separators are '/', standing between word boundaries; the leftmost
\* such token is always contributed and comes first; when the blob has no
\* such token (its dates are printed with '.', '-' or whitespace) it
\* contributes nothing.
C3_SlashOnly ==
    (phase # "input" /\ AnchorStarts(blob) = {}) =>
        LET slashed == TokenStarts(blob, SlashSet)
        IN  /\ \A k \in DOMAIN blob_dates :
                  /\ blob_dates[k][3] = "/"
                  /\ blob_dates[k][6] = "/"
                  /\ \E p \in slashed : TokenAt(blob, p, SlashSet) = blob_dates[k]
            /\ slashed = {} => blob_dates = <<>>
            /\ slashed # {} =>
                  /\ blob_dates # <<>>
                  /\ blob_dates[1] = TokenAt(blob, Ascending(slashed)[1], SlashSet)

\* C3 happens: a blob without anchor holds a token printed with another
\* separator next to a '/' token, and only the '/' token is contributed
C3_Witness ==
    /\ phase = "extracted"
    /\ AnchorStarts(blob) = {}
    /\ blob_dates # <<>>
    /\ \E p \in TokenStarts(blob, DateSepSet) :
          TokenAt(blob, p, DateSepSet) \notin Range(blob_dates)

\* C5 as stated: every candidate the extractors return is normalized to
\* digits separated by '/', candidates that differ only in their separators
\* get the same key, and normalizing twice changes nothing.
C5_SeparatorsNormalized ==
    phase = "normalized" =>
        /\ \A k \in DOMAIN blob_clean :
              /\ blob_clean[k][3] = "/"
              /\ blob_clean[k][6] = "/"
              /\ Normalize(blob_clean[k]) = blob_clean[k]
        /\ \A j, k \in DOMAIN blob_dates :
              (/\ Len(blob_dates[j]) = Len(blob_dates[k])
               /\ \A n \in DOMAIN blob_dates[j] :
                     \/ blob_dates[j][n] = blob_dates[k][n]
                     \/ n \in {3, 6})
              => blob_clean[j] = blob_clean[k]

-----------------------------------------------------------------------------
(* Properties of process_image and of the save handler (checked under Spec) *)

\* the raw date strings of a run over the texts ts, in encounter order
AllDates(ts) == Concat([k \in DOMAIN ts |-> DateMatches(ts[k])])

\* the code list process_image returns for the texts ts, lines 41-74
RECURSIVE FoundCodes(_)
FoundCodes(ts) ==
    IF ts = <<>> THEN {}
    ELSE FoundCodes(SubSeq(ts, 1, Len(ts) - 1)) \cup Range(FindCodes(ts[Len(ts)]))

ProcessImageCodes(ts) == Sorted(FoundCodes(ts))

Occurrences(seq, x) == Cardinality({k \in DOMAIN seq : seq[k] = x})

FirstIndex(seq, x) == CHOOSE k \in DOMAIN seq : seq[k] = x /\ \A j \in 1 .. (k - 1) : seq[j] # x

\* d is a contiguous substring of text
IsSubstring(d, text) ==
    \E p \in 1 .. (Len(text) - Len(d) + 1) : SubSeq(text, p, p + Len(d) - 1) = d

\* n is d with every '.', '-' and ' ' replaced by '/'
IsNormalFormOf(n, d) ==
    /\ Len(n) = Len(d)
    /\ \A k \in DOMAIN d : n[k] = IF d[k] \in {".", "-", " "} THEN "/" ELSE d[k]

\* the normalized anchored matches of all texts
NormalizedAnchored(ts) == {Normalize(m) : m \in UNION {Range(FindMfd(ts[k])) : k \in DOMAIN ts}}

\* C1: the returned date is the normalized string with the highest count over
\* all variants, and among the strings with that count the one met first in
\* encounter order; it is empty when no date was found.
C1_MajorityEarliest ==
    pc = "done" =>
        LET clean == CleanDates(AllDates(texts))
        IN  IF clean = <<>> THEN detected_date = <<>>
            ELSE /\ detected_date \in Range(clean)
                 /\ \A x \in Range(clean) \ {detected_date} :
                       \/ Occurrences(clean, x) < Occurrences(clean, detected_date)
                       \/ /\ Occurrences(clean, x) = Occurrences(clean, detected_date)
                          /\ FirstIndex(clean, detected_date) < FirstIndex(clean, x)

\* C1 happens: two normalized strings share the highest count
C1_Witness ==
    /\ pc = "done"
    /\ LET clean == CleanDates(AllDates(texts))
       IN  \E x \in Range(clean) \ {detected_date} :
               Occurrences(clean, x) = Occurrences(clean, detected_date)

\* C4 as stated: every returned code is four groups of three characters of
\* A-Z and 0-9 with exactly one space character between adjacent groups.
C4_CodeGrammar ==
    pc = "done" =>
        \A k \in DOMAIN final_codes :
            /\ Len(final_codes[k]) = CodeLen
            /\ \A j \in 1 .. CodeLen :
                  IF j \in {4, 8, 12} THEN final_codes[k][j] = " "
                  ELSE final_codes[k][j] \in CodeCharSet

\* C6: the returned code list holds exactly the union of the codes matched in
\* the texts of the variants, each once, in ascending lexicographic order, and
\* every order of the variants gives the same list.
C6_SortedUnion ==
    pc = "done" =>
        LET union == UNION {Range(FindCodes(texts[k])) : k \in DOMAIN texts}
        IN  /\ Range(final_codes) = union
            /\ Len(final_codes) = Cardinality(union)
            /\ \A k \in 1 .. (Len(final_codes) - 1) :
                  StrLess(final_codes[k], final_codes[k + 1])
            /\ \A perm \in Permutations(DOMAIN texts) :
                  ProcessImageCodes([k \in DOMAIN texts |-> texts[perm[k]]]) = final_codes

\* C6 happens: three distinct codes are returned and one of them was matched
\* in two variants
C6_Witness ==
    /\ pc = "done"
    /\ Len(final_codes) = 3
    /\ \E j, k \in DOMAIN texts :
          j # k /\ Range(FindCodes(texts[j])) \cap Range(FindCodes(texts[k])) # {}

\* C7 as stated: every returned code, and the returned date when it is not
\* empty, is a contiguous substring of the text of some variant.
C7_Literal ==
    pc = "done" =>
        /\ \A k \in DOMAIN final_codes :
              \E t \in DOMAIN texts : IsSubstring(final_codes[k], texts[t])
        /\ detected_date # <<>> =>
              \E t \in DOMAIN texts : IsSubstring(detected_date, texts[t])

\* C7 amended: every returned code is a contiguous substring of the text of
\* some variant; the returned date, when it is not empty, is a contiguous
\* substring of the text of some variant with every '.', '-' and ' ' replaced
\* by '/'.
C7_LiteralUpToSeparators ==
    pc = "done" =>
        /\ \A k \in DOMAIN final_codes :
              \E t \in DOMAIN texts : IsSubstring(final_codes[k], texts[t])
        /\ detected_date # <<>> =>
              \E t \in DOMAIN texts :
                  \E p \in 1 .. (Len(texts[t]) - Len(detected_date) + 1) :
                      IsNormalFormOf(detected_date,
                                     SubSeq(texts[t], p, p + Len(detected_date) - 1))

\* C7 happens: codes are returned together with a date that stands in no text
\* as returned
C7_Witness ==
    /\ pc = "done"
    /\ final_codes # <<>>
    /\ detected_date # <<>>
    /\ \A t \in DOMAIN texts : ~IsSubstring(detected_date, texts[t])

\* the parts of C8 about failing calls: a failed decode raises before any
\* recognizer call, a failed recognizer call raises, and a value is returned
\* only by a run in which nothing failed and all passes ran
FailuresRaise ==
    /\ error = "decode" => (pc = "raised" /\ calls = 0)
    /\ error = "recognizer" => pc = "raised"
    /\ pc = "raised" => error # "none"
    /\ pc \in {"done", "no_codes", "saved"} =>
          (error = "none" /\ calls = NumPasses /\ Len(texts) = NumPasses)

\* C8 as stated: ([], "") is returned only when the image decoded and all
\* recognizer calls returned text without a code-shaped or date-shaped token
\* (a date-shaped token having separators '.', '-', '/' or whitespace);
\* failed calls raise.
C8_EmptyOnlyWithoutTokens ==
    /\ FailuresRaise
    /\ (pc = "done" /\ final_codes = <<>> /\ detected_date = <<>>) =>
          \A k \in DOMAIN texts :
              /\ FindCodes(texts[k]) = <<>>
              /\ AnchorStarts(texts[k]) = {}
              /\ TokenStarts(texts[k], DateSepSet) = {}

\* C8 amended: ([], "") is returned only when the image decoded and all
\* recognizer calls returned text in which the patterns match no code, no
\* anchored date and no '/'-separated date between word boundaries; failed
\* calls raise.
C8_EmptyOnlyWithoutMatches ==
    /\ FailuresRaise
    /\ (pc = "done" /\ final_codes = <<>> /\ detected_date = <<>>) =>
          \A k \in DOMAIN texts :
              /\ FindCodes(texts[k]) = <<>>
              /\ AnchorStarts(texts[k]) = {}
              /\ TokenStarts(texts[k], SlashSet) = {}

\* C8 happens: ([], "") is returned for texts one of which holds a date
\* printed with another separator than '/'
C8_Witness ==
    /\ pc = "done"
    /\ final_codes = <<>>
    /\ detected_date = <<>>
    /\ \E k \in DOMAIN texts : TokenStarts(texts[k], DateSepSet) # {}

\* C9 as stated: Save with a non-blank date and the text area as pre-filled
\* appends one row per returned code, in order, all with the same date and
\* timestamp; a blank date appends nothing.  (Stated for a press whose sheet
\* calls all succeeded.)
C9_OneRowPerCode ==
    pc = "saved" =>
        /\ Strip(final_date) = <<>> => appended = <<>>
        /\ (save_status = "saved" /\ edited_codes = CodesText(final_codes)) =>
              /\ Len(appended) = Len(final_codes)
              /\ \A k \in DOMAIN appended :
                    /\ appended[k].code = final_codes[k]
                    /\ appended[k].date = final_date
                    /\ appended[k].timestamp = timestamp

\* C10 as stated: when the text of some variant holds an anchored date, the
\* returned date is the normalized form of an anchored match.
C10_AnchoredWins ==
    (pc = "done" /\ \E k \in DOMAIN texts : AnchorStarts(texts[k]) # {}) =>
        detected_date \in NormalizedAnchored(texts)

\* C10 amended: when the text of some variant holds an anchored date and no
\* text without an anchor holds a '/'-separated date between word boundaries
\* (so that every variant that contributes a date has an anchor), the
\* returned date is the normalized form of an anchored match.
C10_AnchoredWinsPerVariant ==
    (/\ pc = "done"
     /\ \E k \in DOMAIN texts : AnchorStarts(texts[k]) # {}
     /\ \A k \in DOMAIN texts :
           AnchorStarts(texts[k]) = {} => TokenStarts(texts[k], SlashSet) = {})
    => detected_date \in NormalizedAnchored(texts)

\* C10 happens: every variant that contributes a date has an anchor, and the
\* text of one of them also holds a loose date that is no anchored match
C10_Witness ==
    /\ pc = "done"
    /\ \E k \in DOMAIN texts : AnchorStarts(texts[k]) # {}
    /\ \A k \in DOMAIN texts :
          AnchorStarts(texts[k]) = {} => TokenStarts(texts[k], SlashSet) = {}
    /\ \E k \in DOMAIN texts :
          /\ AnchorStarts(texts[k]) # {}
          /\ \E p \in TokenStarts(texts[k], SlashSet) :
                Normalize(TokenAt(texts[k], p, SlashSet)) \notin NormalizedAnchored(texts)

====
